---- MODULE Spec2Model ----
(***************************************************************************)
(* Hierarchical name registry (assembly/contracts/main.ts).                *)
(*                                                                         *)
(* A registry is a smart contract holding one datastore entry per label    *)
(* (label -> owner address string) and a coin balance.  Strings that the   *)
(* code inspects character by character (domain names, labels) are         *)
(* sequences of character codes; addresses and messages are strings.       *)
(* Amounts are 64-bit unsigned numbers of the smallest currency unit; an   *)
(* amount v is written as the pair [u, n] with v = u * ONE_UNIT + n and    *)
(* 0 <= n < ONE_UNIT, so that the values the code computes (up to 10^13)   *)
(* are represented exactly.                                                *)
(*                                                                         *)
(* The host executes one operation at a time.  A call transfers the coins  *)
(* that accompany it from the caller to the called contract before the     *)
(* function runs; a function that returns keeps its effects, whatever the  *)
(* result it serialises; an abort (a failed unwrap, a read of a missing    *)
(* datastore entry, a failed call or transfer) reverts the whole           *)
(* operation.                                                              *)
(*                                                                         *)
(* The source file holds the five exported functions twice: once           *)
(* returning a serialised result (lines 36-166) and once returning the     *)
(* typed Result (lines 191-328).  The two differ in the delegated branch   *)
(* of dns_resolve and dns_alloc_cost and in how a forwarded result is      *)
(* handed back; a run of a function is a run of one of the two variants.   *)
(* A typed Result is written like a serialised one: a tag and the value    *)
(* or the error.                                                           *)
(***************************************************************************)
EXTENDS Integers, Sequences, FiniteSets, TLC

VARIABLES
  store,    \* store[r]: the datastore of registry r, label -> owner string
  balance,  \* balance[a]: the coins held by address a
  last,     \* the last operation sent to registry P and its outcome; before is
            \* the label's record and pending is fresh[label] when it was issued
  fresh,    \* fresh[l]: the owner given by a successful dns_alloc of label l
            \* when no operation on l was issued since, else <<>>
  nCalls,   \* number of operations issued
  input,    \* the string given to the pure functions
  output    \* the last result of a pure function on input

vars == <<store, balance, last, fresh, nCalls, input, output>>

(***************************************************************************)
(* Bounds of the model                                                     *)
(***************************************************************************)
MaxCalls == 3
MaxLabelLen == 12
InitialUnits == 20002

(***************************************************************************)
(* Program constants                                                       *)
(***************************************************************************)
ONE_UNIT == 1000000000

CH_DOT == 46
CH_HYPHEN == 45
CH_0 == 48
CH_9 == 57
CH_a == 97
CH_z == 122
\* an upper-case letter, outside the ranges is_valid_domain accepts
CH_UPPER_A == CH_a - 32

Accounts == {"A", "B"}
Registries == {"P", "R"}
Addresses == Accounts \cup Registries

(***************************************************************************)
(* Amount: u64 value of the smallest unit, as [u, n]                       *)
(***************************************************************************)
Amount(u, n) == [u |-> u, n |-> n]

AmtZero == Amount(0, 0)

AmtLess(a, b) == a.u < b.u \/ (a.u = b.u /\ a.n < b.n)

AmtAdd(a, b) ==
  LET n == a.n + b.n
  IN  Amount(a.u + b.u + (n \div ONE_UNIT), n % ONE_UNIT)

\* a - b for b <= a
AmtSub(a, b) ==
  IF a.n >= b.n THEN Amount(a.u - b.u, a.n - b.n)
  ELSE Amount(a.u - b.u - 1, (a.n + ONE_UNIT) - b.n)

(***************************************************************************)
(* multiplier * ONE_UNIT.  The literal multiplier takes the type of        *)
(* Amount's value, u64, and the product is evaluated in that type: the     *)
(* low 8 bytes of the exact product.  The product is computed on           *)
(* little-endian byte strings and read back as an amount.                  *)
(***************************************************************************)
BYTE == 256
U64_BYTES == 8
I32_BYTES == U64_BYTES \div 2

RECURSIVE Bytes(_, _)
Bytes(x, w) == IF w = 0 THEN <<>> ELSE <<x % BYTE>> \o Bytes(x \div BYTE, w - 1)

\* a[1]*b[k] + a[2]*b[k-1] + ... + a[i]*b[k+1-i]
RECURSIVE ColSum(_, _, _, _)
ColSum(a, b, k, i) ==
  IF i = 0 THEN 0 ELSE a[i] * b[k + 1 - i] + ColSum(a, b, k, i - 1)

\* bytes k..w of the product of a and b, given the carry into byte k
RECURSIVE MulCols(_, _, _, _, _)
MulCols(a, b, w, k, carry) ==
  IF k > w THEN <<>>
  ELSE LET t == carry + ColSum(a, b, k, k)
       IN  <<t % BYTE>> \o MulCols(a, b, w, k + 1, t \div BYTE)

\* x * y in an unsigned integer type of w bytes (wraps modulo 256^w)
MulWrap(x, y, w) == MulCols(Bytes(x, w), Bytes(y, w), w, 1, 0)

\* a * 256; the low part is split at 10^5 so that every intermediate value
\* stays below 2^31
TimesByte(a) ==
  LET split == 100000
      hi == (a.n \div split) * BYTE
      lo == (hi % (ONE_UNIT \div split)) * split + (a.n % split) * BYTE
  IN  Amount(a.u * BYTE + (hi \div (ONE_UNIT \div split)) + (lo \div ONE_UNIT),
             lo % ONE_UNIT)

\* the amount a little-endian byte string denotes
RECURSIVE FromBytes(_)
FromBytes(bytes) ==
  IF bytes = <<>> THEN AmtZero
  ELSE LET high == CHOOSE h \in {FromBytes(Tail(bytes))} : TRUE
       IN  AmtAdd(Amount(0, Head(bytes)), TimesByte(high))

Multipliers == {10000, 1000, 100, 1}

UnitProducts ==
  [m \in Multipliers |-> FromBytes(MulWrap(m, ONE_UNIT, U64_BYTES))]

\* the products evaluated in a 32-bit type
UnitProducts32 ==
  [m \in Multipliers |-> FromBytes(MulWrap(m, ONE_UNIT, I32_BYTES))]

MulUnit_i32(multiplier) == UnitProducts32[multiplier]

\* multiplier * ONE_UNIT as compute_cost evaluates it
MulUnit(multiplier) == UnitProducts[multiplier]

\* cost.value / 2 : unsigned division, rounds toward zero
HalfOf(a) == Amount(a.u \div 2, ((a.u % 2) * (ONE_UNIT \div 2)) + (a.n \div 2))

(***************************************************************************)
(* Pure helpers of the contract                                            *)
(***************************************************************************)
SetMax(S) == CHOOSE x \in S : \A y \in S : y <= x

\* String.lastIndexOf("."), 0-based, -1 when absent
lastIndexOf(domain, c) ==
  LET I == {i \in 1..Len(domain) : domain[i] = c}
  IN  IF I = {} THEN -1 ELSE SetMax(I) - 1

\* returns <<remainder, label>> (parts[0], parts[1] of the code)
split_domain(domain) ==
  LET lastIndex == lastIndexOf(domain, CH_DOT)
  IN  IF lastIndex = -1 THEN << <<>>, domain >>
      ELSE << SubSeq(domain, 1, lastIndex),
              SubSeq(domain, lastIndex + 2, Len(domain)) >>

\* the 4..10 tier stops one short
compute_cost_short_tier(domain) ==
  IF Len(domain) = 2 THEN MulUnit(10000)
  ELSE IF Len(domain) = 3 THEN MulUnit(1000)
  ELSE IF Len(domain) >= 4 /\ Len(domain) < 10 THEN MulUnit(100)
  ELSE MulUnit(1)

\* the multipliers of the first two tiers exchanged
compute_cost_swapped(domain) ==
  IF Len(domain) = 2 THEN MulUnit(1000)
  ELSE IF Len(domain) = 3 THEN MulUnit(10000)
  ELSE IF Len(domain) >= 4 /\ Len(domain) <= 10 THEN MulUnit(100)
  ELSE MulUnit(1)

compute_cost(domain) ==
  IF Len(domain) = 2 THEN MulUnit(10000)
  ELSE IF Len(domain) = 3 THEN MulUnit(1000)
  ELSE IF Len(domain) >= 4 /\ Len(domain) <= 10 THEN MulUnit(100)
  ELSE MulUnit(1)

is_valid_domain_from_one(domain) ==
  IF Len(domain) < 1 THEN FALSE
  ELSE \A i \in 1..Len(domain) :
         LET c == domain[i]
         IN  (c >= CH_0 /\ c <= CH_9) \/ (c >= CH_a /\ c <= CH_z) \/ c = CH_HYPHEN

is_valid_domain(domain) ==
  IF Len(domain) < 2 THEN FALSE
  ELSE \A i \in 1..Len(domain) :
         LET c == domain[i]
         IN  (c >= CH_0 /\ c <= CH_9) \/ (c >= CH_a /\ c <= CH_z) \/ c = CH_HYPHEN

(***************************************************************************)
(* Results                                                                 *)
(***************************************************************************)
MSG_NOT_ENOUGH == "Not enough coins to pay for the domain name."
MSG_ONLY_OWNER == "Only the owner of the domain can free it."
MSG_INVALID == "Invalid domain name."
MSG_NOT_IMPLEMENTED == "Not implemented yet."

SERIALIZED == "serialized"
TYPED == "typed"
Variants == {SERIALIZED, TYPED}

Ok(v) == [ok |-> TRUE, value |-> v, error |-> ""]
Err(v, msg) == [ok |-> FALSE, value |-> v, error |-> msg]

\* tag byte 0 + payload, or tag byte 1 + error message
serializeResult(result) ==
  IF result.ok THEN <<0, result.value>> ELSE <<1, result.error>>

\* the empty StaticArray<u8> payload
EmptyBytes == <<>>

(***************************************************************************)
(* Outcome of running a function: it returns bytes in a new state, or it   *)
(* aborts.                                                                 *)
(***************************************************************************)
Return(st, bytes) == [kind |-> "return", bytes |-> bytes, st |-> st]
Abort(st) == [kind |-> "abort", bytes |-> <<>>, st |-> st]

(***************************************************************************)
(* Host: datastore of the executing contract and coin ledger.  A state st  *)
(* holds the datastores, the balances, the calls issued so far in the      *)
(* running operation and the variant of the code that runs.                *)
(***************************************************************************)
State(s, b, v) == [store |-> s, balance |-> b, calls |-> <<>>, variant |-> v]

Storage_has(st, self, key) == key \in DOMAIN st.store[self]

Storage_get(st, self, key) == st.store[self][key]

Storage_set(st, self, key, value) ==
  [st EXCEPT !.store[self] =
     [k \in (DOMAIN st.store[self]) \cup {key} |->
        IF k = key THEN value ELSE st.store[self][k]]]

Storage_del(st, self, key) ==
  [st EXCEPT !.store[self] =
     [k \in (DOMAIN st.store[self]) \ {key} |-> st.store[self][k]]]

CanPay(st, from, amount) == ~AmtLess(st.balance[from], amount)

MoveCoins(st, from, to, amount) ==
  IF from = to THEN st
  ELSE [st EXCEPT !.balance[from] = AmtSub(st.balance[from], amount),
                  !.balance[to] = AmtAdd(st.balance[to], amount)]

\* Address wraps its string; toString gives it back
Address(s) == [_value |-> s]
toString(address) == address._value

(***************************************************************************)
(* Terminal branches of the operations (empty remainder)                   *)
(***************************************************************************)
resolve_terminal(st, self, label) ==
  IF ~Storage_has(st, self, label) THEN Abort(st)
  ELSE Return(st, serializeResult(Ok(Storage_get(st, self, label))))

\* refuses a label that already has a record
alloc_terminal_checks_claimed(st, self, label, address, coins) ==
  LET cost == compute_cost(label)
  IN  IF AmtLess(coins, cost)
      THEN Return(st, serializeResult(Err(EmptyBytes, MSG_NOT_ENOUGH)))
      ELSE IF Storage_has(st, self, label)
      THEN Return(st, serializeResult(Err(EmptyBytes, "Already claimed.")))
      ELSE Return(Storage_set(st, self, label, toString(address)),
                  serializeResult(Ok(EmptyBytes)))

\* keeps the owner of a label that already has a record
alloc_terminal_keeps_owner(st, self, label, address, coins) ==
  LET cost == compute_cost(label)
  IN  IF AmtLess(coins, cost)
      THEN Return(st, serializeResult(Err(EmptyBytes, MSG_NOT_ENOUGH)))
      ELSE IF Storage_has(st, self, label)
      THEN Return(st, serializeResult(Ok(EmptyBytes)))
      ELSE Return(Storage_set(st, self, label, toString(address)),
                  serializeResult(Ok(EmptyBytes)))

alloc_terminal(st, self, label, address, coins) ==
  LET cost == compute_cost(label)
  IN  IF AmtLess(coins, cost)
      THEN Return(st, serializeResult(Err(EmptyBytes, MSG_NOT_ENOUGH)))
      ELSE Return(Storage_set(st, self, label, toString(address)),
                  serializeResult(Ok(EmptyBytes)))

\* no comparison of the caller with the stored owner
free_terminal_no_owner_check(st, self, caller, label) ==
  IF ~Storage_has(st, self, label) THEN Abort(st)
  ELSE LET st1 == Storage_del(st, self, label)
           cost == compute_cost(label)
           refund == HalfOf(cost)
       IN  IF ~CanPay(st1, self, refund) THEN Abort(st)
           ELSE Return(MoveCoins(st1, self, caller, refund),
                       serializeResult(Ok(EmptyBytes)))

\* refunds the whole cost instead of half of it
free_terminal_full_refund(st, self, caller, label) ==
  IF ~Storage_has(st, self, label) THEN Abort(st)
  ELSE LET address == Storage_get(st, self, label)
       IN  IF address # toString(Address(caller))
           THEN Return(st, serializeResult(Err(EmptyBytes, MSG_ONLY_OWNER)))
           ELSE LET st1 == Storage_del(st, self, label)
                    cost == compute_cost(label)
                IN  IF ~CanPay(st1, self, cost) THEN Abort(st)
                    ELSE Return(MoveCoins(st1, self, caller, cost),
                                serializeResult(Ok(EmptyBytes)))

\* pays the refund and leaves the record in place
free_terminal_keeps_record(st, self, caller, label) ==
  IF ~Storage_has(st, self, label) THEN Abort(st)
  ELSE LET address == Storage_get(st, self, label)
       IN  IF address # toString(Address(caller))
           THEN Return(st, serializeResult(Err(EmptyBytes, MSG_ONLY_OWNER)))
           ELSE LET cost == compute_cost(label)
                    refund == HalfOf(cost)
                IN  IF ~CanPay(st, self, refund) THEN Abort(st)
                    ELSE Return(MoveCoins(st, self, caller, refund),
                                serializeResult(Ok(EmptyBytes)))

free_terminal(st, self, caller, label) ==
  IF ~Storage_has(st, self, label) THEN Abort(st)
  ELSE LET address == Storage_get(st, self, label)
       IN  IF address # toString(Address(caller))
           THEN Return(st, serializeResult(Err(EmptyBytes, MSG_ONLY_OWNER)))
           ELSE LET st1 == Storage_del(st, self, label)
                    cost == compute_cost(label)
                    refund == HalfOf(cost)
                IN  IF ~CanPay(st1, self, refund) THEN Abort(st)
                    ELSE Return(MoveCoins(st1, self, caller, refund),
                                serializeResult(Ok(EmptyBytes)))

\* writes the caller back instead of the new owner
transfer_terminal_keeps_owner(st, self, caller, label, new_addr) ==
  IF ~Storage_has(st, self, label) THEN Abort(st)
  ELSE LET address == Storage_get(st, self, label)
       IN  IF address # toString(Address(caller))
           THEN Return(st, serializeResult(Err(EmptyBytes, MSG_ONLY_OWNER)))
           ELSE Return(Storage_set(st, self, label, toString(Address(caller))),
                       serializeResult(Ok(EmptyBytes)))

\* pays the refund of dns_free after the write
transfer_terminal_with_refund(st, self, caller, label, new_addr) ==
  IF ~Storage_has(st, self, label) THEN Abort(st)
  ELSE LET address == Storage_get(st, self, label)
       IN  IF address # toString(Address(caller))
           THEN Return(st, serializeResult(Err(EmptyBytes, MSG_ONLY_OWNER)))
           ELSE LET st1 == Storage_set(st, self, label, toString(new_addr))
                    refund == HalfOf(compute_cost(label))
                IN  IF ~CanPay(st1, self, refund) THEN Abort(st)
                    ELSE Return(MoveCoins(st1, self, caller, refund),
                                serializeResult(Ok(EmptyBytes)))

transfer_terminal(st, self, caller, label, new_addr) ==
  IF ~Storage_has(st, self, label) THEN Abort(st)
  ELSE LET address == Storage_get(st, self, label)
       IN  IF address # toString(Address(caller))
           THEN Return(st, serializeResult(Err(EmptyBytes, MSG_ONLY_OWNER)))
           ELSE Return(Storage_set(st, self, label, toString(new_addr)),
                       serializeResult(Ok(EmptyBytes)))

(***************************************************************************)
(* The exported functions and the host's call.  self is the contract that  *)
(* runs the function, caller its immediate caller, args the decoded        *)
(* argument buffer, coins the coins transferred with the call.             *)
(***************************************************************************)
RECURSIVE call(_, _, _, _, _, _)
RECURSIVE dns_resolve(_, _, _, _, _)
RECURSIVE dns_alloc(_, _, _, _, _)
RECURSIVE dns_free(_, _, _, _, _)
RECURSIVE dns_transfer(_, _, _, _, _)
RECURSIVE dns_alloc_cost(_, _, _, _, _)

\* forwarding branch shared by the four functions: read the top label's
\* entry and call the same function at that address with the remainder only
forward(st, self, fn, domain_array, coins) ==
  IF ~Storage_has(st, self, domain_array[2]) THEN Abort(st)
  ELSE LET address == Storage_get(st, self, domain_array[2])
       IN  call(st, self, toString(Address(address)), fn, <<domain_array[1]>>, coins)

\* new Result(call(...)) of the typed variant: the returned bytes become the
\* value of a success Result
handed_back(st, out) ==
  IF st.variant = TYPED /\ out.kind = "return"
  THEN [out EXCEPT !.bytes = serializeResult(Ok(out.bytes))]
  ELSE out

\* delegated branch of the typed dns_resolve: reads the entry, calls nothing
resolve_not_implemented(st, self, domain_array) ==
  IF ~Storage_has(st, self, domain_array[2]) THEN Abort(st)
  ELSE LET address == Storage_get(st, self, domain_array[2])
       IN  Return(st, serializeResult(Err(Address(address), MSG_NOT_IMPLEMENTED)))

dns_resolve(st, self, caller, args, coins) ==
  IF Len(args) < 1 THEN Abort(st)
  ELSE LET full_domain == args[1]
           domain_array == split_domain(full_domain)
       IN  IF domain_array[1] # <<>>
           THEN IF st.variant = TYPED
                THEN resolve_not_implemented(st, self, domain_array)
                ELSE forward(st, self, "dns_resolve", domain_array, coins)
           ELSE resolve_terminal(st, self, domain_array[2])

\* lines 100-104: the cost of the label, or the error with a zero cost
alloc_cost_result(label) ==
  LET cost == AmtAdd(AmtZero, compute_cost(label))
  IN  IF ~is_valid_domain(label) THEN Err(AmtZero, MSG_INVALID) ELSE Ok(cost)

dns_alloc_cost(st, self, caller, args, coins) ==
  IF Len(args) < 2 THEN Abort(st)
  ELSE LET full_domain == args[1]
           address == Address(args[2])
           domain_array == split_domain(full_domain)
       IN  IF domain_array[1] # <<>> /\ st.variant = SERIALIZED
           THEN forward(st, self, "dns_alloc_cost", domain_array, coins)
           ELSE IF domain_array[1] # <<>> /\ ~Storage_has(st, self, domain_array[2])
           THEN Abort(st)
           ELSE Return(st, serializeResult(alloc_cost_result(domain_array[2])))

dns_alloc(st, self, caller, args, coins) ==
  IF Len(args) < 2 THEN Abort(st)
  ELSE LET full_domain == args[1]
           address == Address(args[2])
           domain_array == split_domain(full_domain)
       IN  IF domain_array[1] # <<>>
           THEN handed_back(st, forward(st, self, "dns_alloc", domain_array, coins))
           ELSE alloc_terminal(st, self, domain_array[2], address, coins)

\* forwards in the name of its own caller
dns_free_forwards_as_caller(st, self, caller, args, coins) ==
  IF Len(args) < 1 THEN Abort(st)
  ELSE LET full_domain == args[1]
           domain_array == split_domain(full_domain)
       IN  IF domain_array[1] # <<>>
           THEN IF ~Storage_has(st, self, domain_array[2]) THEN Abort(st)
                ELSE handed_back(st,
                       call(st, caller, Storage_get(st, self, domain_array[2]),
                            "dns_free", <<domain_array[1]>>, coins))
           ELSE free_terminal(st, self, caller, domain_array[2])

dns_free(st, self, caller, args, coins) ==
  IF Len(args) < 1 THEN Abort(st)
  ELSE LET full_domain == args[1]
           domain_array == split_domain(full_domain)
       IN  IF domain_array[1] # <<>>
           THEN handed_back(st, forward(st, self, "dns_free", domain_array, coins))
           ELSE free_terminal(st, self, caller, domain_array[2])

dns_transfer(st, self, caller, args, coins) ==
  IF Len(args) < 2 THEN Abort(st)
  ELSE LET full_domain == args[1]
           new_addr == Address(args[2])
           domain_array == split_domain(full_domain)
       IN  IF domain_array[1] # <<>>
           THEN handed_back(st, forward(st, self, "dns_transfer", domain_array, coins))
           ELSE transfer_terminal(st, self, caller, domain_array[2], new_addr)

\* call(target, fn, args, coins) issued by `from`
\* the call as the host sees it
CallRecord(from, target, fn, args, coins) ==
  [from |-> from, target |-> target, fn |-> fn, args |-> args, coins |-> coins]

call(st, from, target, fn, args, coins) ==
  LET st0 == [st EXCEPT !.calls =
                Append(st.calls, CallRecord(from, target, fn, args, coins))]
  IN  IF target \notin Registries THEN Abort(st0)
      ELSE IF ~CanPay(st0, from, coins) THEN Abort(st0)
      ELSE LET st1 == MoveCoins(st0, from, target, coins)
           IN  IF fn = "dns_resolve"
               THEN dns_resolve(st1, target, from, args, coins)
               ELSE IF fn = "dns_alloc"
               THEN dns_alloc(st1, target, from, args, coins)
               ELSE IF fn = "dns_free"
               THEN dns_free(st1, target, from, args, coins)
               ELSE IF fn = "dns_transfer"
               THEN dns_transfer(st1, target, from, args, coins)
               ELSE IF fn = "dns_alloc_cost"
               THEN dns_alloc_cost(st1, target, from, args, coins)
               ELSE Abort(st0)

(***************************************************************************)
(* Inputs: the names sent to P are terminal (no '.'); delegated names take  *)
(* the forward branch of the functions above.                              *)
(***************************************************************************)
L_ab == <<CH_a, CH_a + 1>>
L_abc == <<CH_a, CH_a + 1, CH_a + 2>>

TerminalNames == {L_ab, L_abc}
Names == TerminalNames

OneSmallest == Amount(0, 1)

\* payments tried for a name: one below, exactly, one above its price
Payments(name) ==
  LET cost == compute_cost(split_domain(name)[2])
  IN  {AmtSub(cost, OneSmallest), cost, AmtAdd(cost, OneSmallest)}

OwnerArgs == {"A", "B"}

\* the account that sends the calls whose outcome does not depend on the caller
Payer == "A"

(***************************************************************************)
(* State machine: operations sent by the accounts to registry P            *)
(***************************************************************************)
Top == "P"

NoCall == [op |-> "none", caller |-> "", name |-> <<>>, addr |-> "",
           coins |-> AmtZero, before |-> <<>>, pending |-> <<>>,
           kind |-> "none", bytes |-> <<>>,
           target |-> "", variant |-> "", calls |-> <<>>]

NoOutput == [fn |-> "none", cost |-> AmtZero, valid |-> FALSE, parts |-> <<>>,
             variant |-> "", kind |-> "none", bytes |-> <<>>]

\* every account holds InitialUnits units, the registries hold nothing
InitialBalance ==
  [a \in Addresses |-> IF a \in Accounts THEN Amount(InitialUnits, 0) ELSE AmtZero]

InitRegistry ==
  /\ store = [r \in Registries |-> <<>>]
  /\ balance = InitialBalance
  /\ last = NoCall
  /\ fresh = [l \in TerminalNames |-> <<>>]
  /\ nCalls = 0

Init ==
  /\ InitRegistry
  /\ input = <<>>
  /\ output = NoOutput

\* the record of the name's own (rightmost) label at registry r:
\* <<owner>> or <<>>
RecordAt(s, r, name) ==
  LET label == split_domain(name)[2]
  IN  IF label \in DOMAIN s[r] THEN <<s[r][label]>> ELSE <<>>

RecordOf(s, name) == RecordAt(s, Top, name)

Succeeded(l) == l.kind = "return" /\ l.bytes[1] = 0

\* one operation: `caller` calls function fn of registry `target`, which
\* runs the given variant of the code; calls are the calls the registry
\* issued while it ran
OperationAt(target, variant, fn, caller, name, addr, args, coins) ==
  /\ CanPay(State(store, balance, variant), caller, coins)
  /\ \E out \in {call(State(store, balance, variant),
                      caller, target, fn, args, coins)} :
         /\ store' = IF out.kind = "abort" THEN store ELSE out.st.store
         /\ balance' = IF out.kind = "abort" THEN balance ELSE out.st.balance
         /\ last' = [op |-> fn, caller |-> caller, name |-> name, addr |-> addr,
                     coins |-> coins, before |-> RecordAt(store, target, name),
                     pending |-> IF target = Top /\ name \in DOMAIN fresh
                                 THEN fresh[name] ELSE <<>>,
                     kind |-> out.kind, bytes |-> out.bytes,
                     target |-> target, variant |-> variant,
                     calls |-> Tail(out.st.calls)]
  /\ fresh' = [l \in DOMAIN fresh |->
                 IF l # name \/ target # Top THEN fresh[l]
                 ELSE IF fn = "dns_alloc" /\ Succeeded(last') THEN <<addr>>
                 ELSE <<>>]
  /\ nCalls' = nCalls + 1
  /\ UNCHANGED <<input, output>>

\* an operation sent to P; on a terminal name the two variants run the same
\* statements
Operation(fn, caller, name, addr, args, coins) ==
  OperationAt(Top, SERIALIZED, fn, caller, name, addr, args, coins)

DnsResolve ==
  \E caller \in Accounts, name \in Names :
    /\ nCalls < MaxCalls
    /\ Operation("dns_resolve", caller, name, "", <<name>>, AmtZero)

DnsAlloc ==
  \E caller \in Accounts, name \in Names, addr \in OwnerArgs :
    \E coins \in Payments(name) :
      /\ nCalls < MaxCalls
      /\ Operation("dns_alloc", caller, name, addr, <<name, addr>>, coins)

DnsFree ==
  \E caller \in Accounts, name \in Names :
    /\ nCalls < MaxCalls
    /\ Operation("dns_free", caller, name, "", <<name>>, AmtZero)

DnsTransfer ==
  \E caller \in Accounts, name \in Names, addr \in OwnerArgs :
    /\ nCalls < MaxCalls
    /\ Operation("dns_transfer", caller, name, addr, <<name, addr>>, AmtZero)

Next == DnsResolve \/ DnsAlloc \/ DnsFree \/ DnsTransfer

Spec == Init /\ [][Next]_vars

(***************************************************************************)
(* The pure functions applied to bounded inputs                            *)
(***************************************************************************)
Alphabet == {CH_a, CH_z, CH_0, CH_9, CH_HYPHEN, CH_DOT, CH_UPPER_A}

AllA(n) == [i \in 1..n |-> CH_a]

\* strings of a's of every length up to MaxLabelLen, and the same with one
\* character replaced by each character of the alphabet
LabelInputs ==
  {AllA(n) : n \in 0..MaxLabelLen} \cup
  {[AllA(n) EXCEPT ![i] = c] :
     n \in 1..MaxLabelLen, i \in 1..MaxLabelLen, c \in Alphabet}

InitPure ==
  /\ InitRegistry
  /\ input \in {s \in LabelInputs : TRUE}
  /\ output = NoOutput

ComputeCost ==
  /\ output' = [NoOutput EXCEPT !.fn = "compute_cost", !.cost = compute_cost(input)]
  /\ UNCHANGED <<store, balance, last, fresh, nCalls, input>>

IsValidDomain ==
  /\ output' = [NoOutput EXCEPT !.fn = "is_valid_domain",
                                !.valid = is_valid_domain(input)]
  /\ UNCHANGED <<store, balance, last, fresh, nCalls, input>>

SplitDomain ==
  /\ output' = [NoOutput EXCEPT !.fn = "split_domain", !.parts = split_domain(input)]
  /\ UNCHANGED <<store, balance, last, fresh, nCalls, input>>

\* dns_alloc_cost called with the input as the name, in either variant
DnsAllocCost ==
  \E variant \in Variants :
    \E out \in {call(State(store, balance, variant), Payer, Top,
                      "dns_alloc_cost", <<input, Payer>>, AmtZero)} :
      /\ store' = IF out.kind = "abort" THEN store ELSE out.st.store
      /\ balance' = IF out.kind = "abort" THEN balance ELSE out.st.balance
      /\ output' = [NoOutput EXCEPT !.fn = "dns_alloc_cost", !.variant = variant,
                                    !.kind = out.kind, !.bytes = out.bytes]
      /\ UNCHANGED <<last, fresh, nCalls, input>>

NextPure == ComputeCost \/ IsValidDomain \/ SplitDomain \/ DnsAllocCost

SpecPure == InitPure /\ [][NextPure]_vars

(***************************************************************************)
(* Two registries: P, and R to which labels of P can be registered.  Calls *)
(* go to either registry, run either variant of the code, and name         *)
(* terminal and delegated names, a label that is_valid_domain rejects      *)
(* among them.                                                             *)
(***************************************************************************)
L_a == <<CH_a>>

Join(remainder, label) == remainder \o <<CH_DOT>> \o label

N_ab_ab == Join(L_ab, L_ab)
N_ab_ab_ab == Join(N_ab_ab, L_ab)

\* names each function is called with: resolution and pricing go two levels
\* deep; pricing and allocation also get the one-character label
ResolveNames == {L_ab, N_ab_ab, N_ab_ab_ab}
CostNames == {L_ab, L_a, N_ab_ab, N_ab_ab_ab}
AllocNames == {L_ab, L_a, N_ab_ab}
OwnedNames == {L_ab, N_ab_ab}

DelegOwners == {"A", "P", "R"}
NewOwners == {"A", "R"}

\* the price of the name's own label
PriceOf(name) == compute_cost(split_domain(name)[2])

InitDeleg == Init

DelegResolve ==
  \E target \in Registries, variant \in Variants, name \in ResolveNames :
    /\ nCalls < MaxCalls
    /\ OperationAt(target, variant, "dns_resolve", Payer, name, "",
                   <<name>>, AmtZero)

DelegAllocCost ==
  \E target \in Registries, variant \in Variants, name \in CostNames :
    /\ nCalls < MaxCalls
    /\ OperationAt(target, variant, "dns_alloc_cost", Payer, name, Payer,
                   <<name, Payer>>, AmtZero)

DelegAlloc ==
  \E target \in Registries, variant \in Variants :
    \E name \in AllocNames, addr \in DelegOwners :
      /\ nCalls < MaxCalls
      /\ OperationAt(target, variant, "dns_alloc", Payer, name, addr,
                     <<name, addr>>, PriceOf(name))

DelegFree ==
  \E target \in Registries, variant \in Variants :
    \E caller \in Accounts, name \in OwnedNames :
      /\ nCalls < MaxCalls
      /\ OperationAt(target, variant, "dns_free", caller, name, "",
                     <<name>>, AmtZero)

DelegTransfer ==
  \E target \in Registries, variant \in Variants :
    \E caller \in Accounts, name \in OwnedNames, addr \in NewOwners :
      /\ nCalls < MaxCalls
      /\ OperationAt(target, variant, "dns_transfer", caller, name, addr,
                     <<name, addr>>, AmtZero)

NextDeleg ==
  DelegResolve \/ DelegAllocCost \/ DelegAlloc \/ DelegFree \/ DelegTransfer

SpecDeleg == InitDeleg /\ [][NextDeleg]_vars

(***************************************************************************)
(* Properties                                                              *)
(***************************************************************************)
\* what dns_resolve(name) sent to P returns in the state (s, b)
ResolveIn(s, b, name) ==
  call(State(s, b, SERIALIZED), "A", Top, "dns_resolve", <<name>>, AmtZero)

Returned(l, bytes) == l.kind = "return" /\ l.bytes = bytes

Unauthorized == <<1, MSG_ONLY_OWNER>>
InsufficientPayment == <<1, MSG_NOT_ENOUGH>>
SuccessEmpty == <<0, EmptyBytes>>

\* r = floor(c / 2)
IsHalfOf(r, c) ==
  LET d == AmtAdd(r, r) IN d = c \/ AmtAdd(d, OneSmallest) = c

\* the store of P without / with a record for label l
Without(s, l) == [k \in (DOMAIN s) \ {l} |-> s[k]]

\* C1: a dns_resolve of a terminal label L issued after a successful
\* dns_alloc(L, A), with no operation on L in between, returns success with
\* payload A.
C1_ResolveAfterAlloc ==
  (last.op = "dns_resolve" /\ last.pending # <<>>)
    => Returned(last, <<0, last.pending[1]>>)

C1_Witness ==
  /\ last.op = "dns_resolve"
  /\ last.pending = <<"B">>
  /\ last.caller = "A"
  /\ last.kind = "return"

\* C2: dns_free and dns_transfer on a label claimed by A, called by B # A,
\* return the Unauthorized error and leave the store and every balance as
\* they were, so that dns_resolve still returns A.
C2_NonOwnerRejected ==
  [][ (/\ last'.op \in {"dns_free", "dns_transfer"}
       /\ last'.before # <<>>
       /\ last'.before[1] # last'.caller)
      => (/\ Returned(last', Unauthorized)
          /\ store' = store
          /\ balance' = balance
          /\ Returned(ResolveIn(store', balance', last'.name),
                      <<0, last'.before[1]>>)) ]_vars

C2_Witness ==
  /\ last.op = "dns_free"
  /\ last.before = <<"A">>
  /\ last.caller = "B"
  /\ last.bytes = Unauthorized

\* C3: after a successful dns_transfer(L, B) by the owner A (B # A), the
\* next operation on L behaves as follows: dns_resolve returns B, dns_free
\* by A fails with Unauthorized, dns_free by B succeeds and removes the
\* record.
C3_TransferMovesAuthority ==
  [][ (/\ last.op = "dns_transfer" /\ Succeeded(last)
       /\ last.addr # last.caller
       /\ last'.name = last.name)
      => (/\ last'.op = "dns_resolve" => Returned(last', <<0, last.addr>>)
          /\ (last'.op = "dns_free" /\ last'.caller = last.caller)
               => (Returned(last', Unauthorized) /\ store' = store)
          /\ (last'.op = "dns_free" /\ last'.caller = last.addr)
               => (/\ Returned(last', SuccessEmpty)
                   /\ last'.name \notin DOMAIN store'[Top])) ]_vars

C3_Witness ==
  /\ last.op = "dns_transfer" /\ Succeeded(last)
  /\ last.caller = "A" /\ last.addr = "B"
  /\ store[Top][last.name] = "B"

\* C4: a successful dns_free(L) is one called by the owner; it removes the
\* record of L and nothing else from the store, and moves floor(cost(L)/2)
\* from the registry's balance to the caller's balance and no other coins;
\* for a label of length 2 the refund is 5,000 units.
C4_FreeRefundsHalf ==
  [][ (last'.op = "dns_free" /\ Succeeded(last'))
      => (\E refund \in {AmtSub(balance[Top], balance'[Top])} :
            /\ last'.before = <<last'.caller>>
            /\ store'[Top] = Without(store[Top], last'.name)
            /\ \A r \in Registries \ {Top} : store'[r] = store[r]
            /\ IsHalfOf(refund, compute_cost(last'.name))
            /\ Len(last'.name) = 2 => refund = Amount(5000, 0)
            /\ ~AmtLess(balance[Top], balance'[Top])
            /\ balance'[last'.caller] = AmtAdd(balance[last'.caller], refund)
            /\ \A a \in Addresses \ {Top, last'.caller} :
                 balance'[a] = balance[a]) ]_vars

C4_Witness ==
  /\ last.op = "dns_free" /\ Succeeded(last)
  /\ Len(last.name) = 2
  /\ last.before = <<last.caller>>

\* C5: dns_alloc(L, A) with payment p < cost(L) returns InsufficientPayment
\* and leaves the store and all balances unchanged; with p >= cost(L) it
\* succeeds and writes the record L -> A.
C5_PaymentThreshold ==
  [][ last'.op = "dns_alloc"
      => IF AmtLess(last'.coins, compute_cost(last'.name))
         THEN /\ Returned(last', InsufficientPayment)
              /\ store' = store
              /\ balance' = balance
         ELSE /\ Returned(last', SuccessEmpty)
              /\ RecordOf(store', last'.name) = <<last'.addr>> ]_vars

\* C5, the part the code satisfies: the result and the store.
C5_PaymentThresholdStore ==
  [][ last'.op = "dns_alloc"
      => IF AmtLess(last'.coins, compute_cost(last'.name))
         THEN /\ Returned(last', InsufficientPayment)
              /\ store' = store
         ELSE /\ Returned(last', SuccessEmpty)
              /\ RecordOf(store', last'.name) = <<last'.addr>> ]_vars

\* C6: compute_cost depends on the length only: 2 -> 10,000 units,
\* 3 -> 1,000 units, 4 to 10 -> 100 units, 11 and more -> 1 unit.
C6_CostTiers ==
  output.fn = "compute_cost"
    => /\ Len(input) = 2 => output.cost = Amount(10000, 0)
       /\ Len(input) = 3 => output.cost = Amount(1000, 0)
       /\ (Len(input) >= 4 /\ Len(input) <= 10) => output.cost = Amount(100, 0)
       /\ Len(input) >= 11 => output.cost = Amount(1, 0)

C6_Witness ==
  /\ output.fn = "compute_cost"
  /\ Len(input) = 10
  /\ \E i \in 1..Len(input) : input[i] = CH_UPPER_A
  /\ output.cost = Amount(100, 0)

\* C7 as claimed: for all lengths m <= n, 0 and 1 included,
\* cost(m) >= cost(n).
C7_NonIncreasingFromZero ==
  output.fn = "compute_cost"
    => \A s \in LabelInputs :
         Len(input) <= Len(s) => ~AmtLess(output.cost, compute_cost(s))

\* C7 amended: cost is defined for every length; for all lengths
\* 2 <= m <= n, cost(m) >= cost(n); lengths 0 and 1 cost 1 unit, the
\* smallest tier.
C7_NonIncreasingFromTwo ==
  output.fn = "compute_cost"
    => /\ output.cost \in {Amount(10000, 0), Amount(1000, 0),
                           Amount(100, 0), Amount(1, 0)}
       /\ Len(input) < 2 => output.cost = Amount(1, 0)
       /\ \A s \in LabelInputs :
            (2 <= Len(input) /\ Len(input) <= Len(s))
              => ~AmtLess(output.cost, compute_cost(s))

C7_Witness ==
  /\ output.fn = "compute_cost"
  /\ Len(input) = 3
  /\ \E s \in LabelInputs : Len(s) = 4 /\ AmtLess(compute_cost(s), output.cost)

\* C8: the record of a label changes only by Unclaimed -> Claimed(owner)
\* through dns_alloc, Claimed(owner) -> Claimed(newOwner) through
\* dns_transfer called by owner, Claimed(owner) -> Unclaimed through
\* dns_free called by owner.
C8_ThreeTransitions ==
  [][ \A l \in TerminalNames :
        RecordOf(store', l) # RecordOf(store, l)
          => /\ last'.name = l
             /\ \/ /\ RecordOf(store, l) = <<>>
                   /\ last'.op = "dns_alloc"
                   /\ RecordOf(store', l) = <<last'.addr>>
                \/ /\ RecordOf(store, l) = <<last'.caller>>
                   /\ last'.op = "dns_transfer"
                   /\ RecordOf(store', l) = <<last'.addr>>
                \/ /\ RecordOf(store, l) = <<last'.caller>>
                   /\ last'.op = "dns_free"
                   /\ RecordOf(store', l) = <<>> ]_vars

\* C8, its last part alone: the owner of a claimed label changes only
\* through an operation issued by that owner.
C8_OwnerChangesByOwnerOnly ==
  [][ \A l \in TerminalNames :
        (/\ RecordOf(store, l) # <<>> /\ RecordOf(store', l) # <<>>
         /\ RecordOf(store', l) # RecordOf(store, l))
          => last'.caller = RecordOf(store, l)[1] ]_vars

\* C9: dns_alloc on a label claimed by A, for another owner B, with payment
\* >= cost, succeeds and overwrites the record, so that dns_resolve returns
\* B; A receives no coins.
C9_ReallocOverwrites ==
  [][ (/\ last'.op = "dns_alloc"
       /\ last'.before # <<>>
       /\ last'.before[1] # last'.addr
       /\ ~AmtLess(last'.coins, compute_cost(last'.name)))
      => (/\ Returned(last', SuccessEmpty)
          /\ RecordOf(store', last'.name) = <<last'.addr>>
          /\ Returned(ResolveIn(store', balance', last'.name),
                      <<0, last'.addr>>)
          /\ \A a \in {last'.before[1]} :
               IF a = last'.caller
               THEN balance'[a] = AmtSub(balance[a], last'.coins)
               ELSE balance'[a] = balance[a]) ]_vars

C9_Witness ==
  /\ last.op = "dns_alloc" /\ Succeeded(last)
  /\ last.before = <<"A">>
  /\ last.addr = "B"
  /\ last.caller = "B"

\* C10: dns_resolve on a terminal label without a record returns a failure
\* result; it does not abort and returns no success payload.
C10_ResolveUnclaimedFails ==
  (last.op = "dns_resolve" /\ last.before = <<>>)
    => (last.kind = "return" /\ last.bytes[1] = 1)

\* C11: dns_free and dns_transfer on a terminal label without a record
\* return the Unauthorized result for every caller and write nothing, delete
\* nothing and transfer no coins.
C11_UnclaimedUnauthorized ==
  [][ (last'.op \in {"dns_free", "dns_transfer"} /\ last'.before = <<>>)
      => (/\ Returned(last', Unauthorized)
          /\ store' = store
          /\ balance' = balance) ]_vars

\* C11, the part the code satisfies: no write, no delete, no coin transfer.
C11_UnclaimedNoEffect ==
  [][ (last'.op \in {"dns_free", "dns_transfer"} /\ last'.before = <<>>)
      => (store' = store /\ balance' = balance) ]_vars

(***************************************************************************)
(* Delegated names                                                         *)
(***************************************************************************)
IsDelegated(name) == split_domain(name)[1] # <<>>
Remainder(name) == split_domain(name)[1]

\* what the registry `to` answers when r sends it fn with args in state
\* (s, b); the answer's calls are that request followed by the calls the
\* sub-registry issues in turn
AnswerOf(s, b, variant, r, to, fn, args, coins) ==
  call(State(s, b, variant), r, to, fn, args, coins)

NotImplemented(address) == <<1, MSG_NOT_IMPLEMENTED>>

\* C12: dns_resolve on a delegated name sends exactly one dns_resolve request
\* with the remainder to the address registered for the top label and returns
\* that answer unchanged; when the top label is unclaimed it returns a
\* failure result and calls no sub-registry.
C12_ResolveDelegated ==
  [][ (last'.op = "dns_resolve" /\ IsDelegated(last'.name))
      => IF last'.before = <<>>
         THEN /\ last'.kind = "return"
              /\ last'.bytes[1] = 1
              /\ last'.calls = <<>>
         ELSE LET R == last'.before[1]
                  answer == AnswerOf(store, balance, last'.variant, last'.target,
                                     R, "dns_resolve",
                                     <<Remainder(last'.name)>>, AmtZero)
              IN  /\ last'.calls = answer.st.calls
                  /\ Head(last'.calls) =
                       CallRecord(last'.target, R, "dns_resolve",
                                  <<Remainder(last'.name)>>, AmtZero)
                  /\ last'.kind = answer.kind
                  /\ last'.bytes = answer.bytes ]_vars

\* C12, what the code does: the serialised variant forwards a claimed top
\* label as stated; the typed variant calls nothing and answers
\* "Not implemented yet."; an unclaimed top label aborts in both.
C12_ResolveDelegatedAsCoded ==
  [][ (last'.op = "dns_resolve" /\ IsDelegated(last'.name))
      => IF last'.before = <<>>
         THEN last'.kind = "abort" /\ last'.calls = <<>>
         ELSE IF last'.variant = TYPED
         THEN /\ Returned(last', NotImplemented(last'.before[1]))
              /\ last'.calls = <<>>
         ELSE LET R == last'.before[1]
                  answer == AnswerOf(store, balance, last'.variant, last'.target,
                                     R, "dns_resolve",
                                     <<Remainder(last'.name)>>, AmtZero)
              IN  /\ last'.calls = answer.st.calls
                  /\ Head(last'.calls) =
                       CallRecord(last'.target, R, "dns_resolve",
                                  <<Remainder(last'.name)>>, AmtZero)
                  /\ last'.kind = answer.kind
                  /\ last'.bytes = answer.bytes ]_vars

\* a two-level name resolved through both registries
C12_Witness ==
  /\ last.op = "dns_resolve" /\ last.name = N_ab_ab_ab
  /\ last.variant = SERIALIZED
  /\ Len(last.calls) = 2
  /\ Succeeded(last)

\* C13: dns_alloc on a delegated name whose top label is registered to R sends
\* R a dns_alloc request whose arguments are the remainder and the owner
\* address, returns R's result verbatim, writes nothing to the local store
\* and keeps none of the payment.
C13_AllocForwardsNameAndOwner ==
  [][ (/\ last'.op = "dns_alloc" /\ IsDelegated(last'.name)
       /\ last'.before # <<>> /\ last'.before[1] # last'.target)
      => LET R == last'.before[1]
             request == <<Remainder(last'.name), last'.addr>>
             answer == AnswerOf(store, balance, last'.variant, last'.target,
                                R, "dns_alloc", request, last'.coins)
         IN  /\ Head(last'.calls) =
                  CallRecord(last'.target, R, "dns_alloc", request, last'.coins)
             /\ last'.kind = answer.kind
             /\ last'.bytes = answer.bytes
             /\ store'[last'.target] = store[last'.target]
             /\ balance'[last'.target] = balance[last'.target] ]_vars

\* C13, what the code does: the request carries the remainder alone, the
\* sub-registry aborts on the missing address argument, and the operation
\* leaves every store and balance as it was.
C13_DelegatedAllocAborts ==
  [][ (last'.op = "dns_alloc" /\ IsDelegated(last'.name))
      => /\ last'.kind = "abort"
         /\ store' = store /\ balance' = balance
         /\ last'.before # <<>> =>
              last'.calls = <<CallRecord(last'.target, last'.before[1], "dns_alloc",
                                         <<Remainder(last'.name)>>, last'.coins)>>
         /\ last'.before = <<>> => last'.calls = <<>> ]_vars

(***************************************************************************)
(* dns_alloc_cost                                                          *)
(***************************************************************************)
\* the validity predicate as the specification words it
ValidLabel(label) ==
  /\ Len(label) >= 2
  /\ \A i \in 1..Len(label) :
       label[i] \in (CH_a..CH_z) \cup (CH_0..CH_9) \cup {CH_HYPHEN}

InvalidDomain == <<1, MSG_INVALID>>

\* C14: dns_alloc_cost on a terminal name returns the error "Invalid domain
\* name." built with a zero cost exactly when the label fails the validity
\* predicate, and otherwise success with compute_cost(label); it changes no
\* store and no balance.
C14_AllocCostTerminal ==
  [][ (output'.fn = "dns_alloc_cost" /\ ~IsDelegated(input))
      => LET label == split_domain(input)[2]
         IN  /\ output'.kind = "return"
             /\ ~ValidLabel(label) =>
                  /\ output'.bytes = InvalidDomain
                  /\ alloc_cost_result(label) = Err(AmtZero, MSG_INVALID)
             /\ ValidLabel(label) =>
                  output'.bytes = <<0, compute_cost(label)>>
             /\ store' = store
             /\ balance' = balance ]_vars

\* both outcomes occur: a priced valid label and a rejected label
C14_Witness ==
  /\ output.fn = "dns_alloc_cost" /\ ~IsDelegated(input)
  /\ output.bytes = InvalidDomain
  /\ Len(input) = 1

\* C15: dns_alloc_cost on a delegated name issues no call to a sub-registry
\* and returns the cost of the local (rightmost) label, whatever the
\* remainder and the depth.
C15_AllocCostDelegatedLocal ==
  [][ (last'.op = "dns_alloc_cost" /\ IsDelegated(last'.name))
      => /\ last'.calls = <<>>
         /\ Returned(last', <<0, PriceOf(last'.name)>>) ]_vars

\* C15, what the code does: both variants abort on an unclaimed top label;
\* on a claimed one the typed variant calls nothing and returns the local
\* cost, and the serialised variant sends dns_alloc_cost with the remainder
\* alone to the stored address, which aborts the operation.
C15_AllocCostDelegatedAsCoded ==
  [][ (last'.op = "dns_alloc_cost" /\ IsDelegated(last'.name))
      => /\ store' = store /\ balance' = balance
         /\ IF last'.before = <<>>
            THEN last'.kind = "abort" /\ last'.calls = <<>>
            ELSE IF last'.variant = TYPED
            THEN /\ last'.calls = <<>>
                 /\ Returned(last', <<0, PriceOf(last'.name)>>)
            ELSE /\ last'.calls =
                      <<CallRecord(last'.target, last'.before[1], "dns_alloc_cost",
                                   <<Remainder(last'.name)>>, AmtZero)>>
                 /\ last'.kind = "abort" ]_vars

(***************************************************************************)
(* Frame of dns_transfer, amounts, solvency, stored keys                   *)
(***************************************************************************)
\* C16: a successful dns_transfer(L, N) on a terminal label changes the owner
\* stored for L to N and nothing else: every other record, the registry's
\* balance and every account's balance stay as they were, and no call or
\* coin transfer is issued.
C16_TransferFrame ==
  [][ (last'.op = "dns_transfer" /\ ~IsDelegated(last'.name) /\ Succeeded(last'))
      => (/\ last'.name \in DOMAIN store[Top]
          /\ store' = [store EXCEPT ![Top] =
                         [store[Top] EXCEPT ![last'.name] = last'.addr]]
          /\ balance' = balance
          /\ last'.calls = <<>>) ]_vars

\* a transfer to another address succeeded while a second label is claimed
\* and the registry holds coins
C16_Witness ==
  /\ last.op = "dns_transfer" /\ Succeeded(last)
  /\ last.addr # last.caller
  /\ store[Top][last.name] = last.addr
  /\ Cardinality(DOMAIN store[Top]) = 2
  /\ balance[Top] # AmtZero

\* 10,000,000,000,000 and 9,999,999,999,999 of the smallest unit
TenToThe13 == Amount(10000, 0)
TenToThe13Less1 == Amount(9999, ONE_UNIT - 1)

\* C17: the four products multiplier * ONE_UNIT, in the integer width in
\* which compute_cost evaluates them, are 10^13, 10^12, 10^11 and 10^9 (none
\* wraps around); so dns_alloc of a label of length 2 succeeds with a
\* payment of 10,000,000,000,000 and fails with 9,999,999,999,999.
C17_ProductsDoNotWrap ==
  /\ MulUnit(10000) = TenToThe13
  /\ MulUnit(1000) = Amount(1000, 0)
  /\ MulUnit(100) = Amount(100, 0)
  /\ MulUnit(1) = Amount(1, 0)
  /\ (last.op = "dns_alloc" /\ ~IsDelegated(last.name) /\ Len(last.name) = 2)
       => /\ last.coins = TenToThe13 => Succeeded(last)
          /\ last.coins = TenToThe13Less1 => Returned(last, InsufficientPayment)

\* a label of length 2 was refused for 9,999,999,999,999
C17_Witness ==
  /\ last.op = "dns_alloc" /\ Len(last.name) = 2
  /\ last.coins = TenToThe13Less1
  /\ Returned(last, InsufficientPayment)
  /\ compute_cost(last.name) = TenToThe13

\* the refunds owed for the labels in S: the sum of floor(cost(l) / 2)
RECURSIVE RefundsOwed(_)
RefundsOwed(S) ==
  IF S = {} THEN AmtZero
  ELSE LET l == CHOOSE x \in S : TRUE
       IN  AmtAdd(HalfOf(compute_cost(l)), RefundsOwed(S \ {l}))

RECURSIVE TotalOf(_, _)
TotalOf(b, S) ==
  IF S = {} THEN AmtZero
  ELSE LET a == CHOOSE x \in S : TRUE
       IN  AmtAdd(b[a], TotalOf(b, S \ {a}))

\* C18: from an empty store and a zero registry balance, after any sequence
\* of terminal dns_alloc, dns_transfer and dns_free calls the registry holds
\* at least the sum of floor(cost(l) / 2) over the claimed labels l; a
\* dns_free by the owner is always paid, and the registry never pays out
\* more than it was paid (coins only move between the accounts and the
\* registry, whose holdings stay non-negative).
C18_Solvent ==
  /\ ~AmtLess(balance[Top], RefundsOwed(DOMAIN store[Top]))
  /\ (last.op = "dns_free" /\ last.before = <<last.caller>>)
       => Returned(last, SuccessEmpty)
  /\ TotalOf(balance, Accounts \cup {Top}) = TotalOf(InitialBalance, Accounts)

\* a refund was paid while another label stays claimed
C18_Witness ==
  /\ DOMAIN store[Top] # {}
  /\ last.op = "dns_free" /\ Returned(last, SuccessEmpty)
  /\ AmtLess(AmtZero, RefundsOwed(DOMAIN store[Top]))

\* C19: every key with a record in a store satisfies the validity predicate;
\* equivalently, dns_alloc never succeeds for a label for which
\* dns_alloc_cost returns "Invalid domain name.".
C19_StoredKeysValid ==
  /\ \A r \in Registries : \A key \in DOMAIN store[r] : ValidLabel(key)
  /\ (last.op = "dns_alloc" /\ ~IsDelegated(last.name) /\ Succeeded(last))
       => alloc_cost_result(split_domain(last.name)[2]).ok

(***************************************************************************)
(* Delegated dns_free and dns_transfer                                     *)
(***************************************************************************)
\* the arguments the operation l was called with
ArgsOf(l) == IF l.op = "dns_transfer" THEN <<l.name, l.addr>> ELSE <<l.name>>

\* the same operation in state (s, b), sent by the account `origin`
RunBy(s, b, l, origin) ==
  call(State(s, b, l.variant), origin, l.target, l.op, ArgsOf(l), l.coins)

\* the result a registry hands back for the result of the registry it
\* forwarded to
HandedBack(l, bytes) == IF l.variant = TYPED THEN <<0, bytes>> ELSE bytes

\* C20: a dns_free or dns_transfer of a delegated name 'sub.top' that
\* registry P forwards to the registry R stored for 'top' has, at R, the
\* outcome fixed by whether R's owner of 'sub' is the address of P: the same
\* call by any other original caller gives the same result and the same
\* stores and balances; a dns_free succeeds exactly when R's owner of 'sub' is
\* P, and its refund is paid by R to P, not to the original caller.
C20_CallerIsForwarder ==
  [][ (/\ last'.op \in {"dns_free", "dns_transfer"}
       /\ IsDelegated(last'.name)
       /\ last'.before # <<>> /\ last'.before[1] \in Registries)
      => LET P == last'.target
             R == last'.before[1]
             sub == Remainder(last'.name)
             owner == RecordAt(store, R, sub)
             refund == HalfOf(compute_cost(sub))
         IN  /\ \A origin \in Accounts :
                  \E run \in {RunBy(store, balance, last', origin)} :
                    /\ run.kind = last'.kind
                    /\ run.bytes = last'.bytes
                    /\ run.kind = "return" =>
                         (run.st.store = store' /\ run.st.balance = balance')
             /\ last'.calls[1].from = P /\ last'.calls[1].target = R
             /\ last'.op = "dns_transfer" =>
                  (last'.kind = "abort" /\ store' = store /\ balance' = balance)
             /\ (last'.op = "dns_free" /\ owner = <<>>) =>
                  (last'.kind = "abort" /\ store' = store /\ balance' = balance)
             /\ (last'.op = "dns_free" /\ owner # <<>> /\ owner # <<P>>) =>
                  /\ Returned(last', HandedBack(last', Unauthorized))
                  /\ store' = store /\ balance' = balance
             /\ (last'.op = "dns_free" /\ owner = <<P>>) =>
                  /\ Returned(last', HandedBack(last', SuccessEmpty))
                  /\ store' = [store EXCEPT ![R] = Without(store[R], sub)]
                  /\ balance' = MoveCoins([balance |-> balance], R, P, refund).balance
                  /\ balance'[last'.caller] = balance[last'.caller] ]_vars

\* B freed, through P, a label that R had registered to P: R paid P
C20_Witness ==
  /\ last.op = "dns_free" /\ last.name = N_ab_ab
  /\ last.target = "P" /\ last.caller = "B"
  /\ last.kind = "return" /\ last.bytes = HandedBack(last, SuccessEmpty)
  /\ Len(last.calls) = 1 /\ last.calls[1].target = "R"
  /\ AmtLess(AmtZero, balance["P"])
====
